---- MODULE Spec2Model ----
(***************************************************************************)
(* Model of the NTSC comb filter engine of ld-comb-ntsc                    *)
(* (src/tools/ld-comb-ntsc/comb.cpp, class Comb).                          *)
(*                                                                         *)
(* The engine state is the installed configuration, the two values         *)
(* derived from it (irescale, frameHeight) and the retained previous frame *)
(* buffer.  The operations are setConfiguration() and process().  One      *)
(* process() call is one action; the planes it builds on the way are kept  *)
(* in the history variable `call`.                                         *)
(*                                                                         *)
(* qreal values are modelled as fixed-point numbers, multiples of          *)
(* 1/Resolution, extended with +inf, -inf and NaN so that a division by    *)
(* zero behaves as in IEEE arithmetic.                                     *)
(*                                                                         *)
(* Buffers are not stored sample by sample.  A field buffer is a pattern   *)
(* and a length, a frame buffer's raw plane is the pair of fields it was   *)
(* interlaced from, and a plane is a function on the elements that were    *)
(* written (every other element holds the container's initial zero).       *)
(***************************************************************************)
EXTENDS Integers, Sequences, FiniteSets, TLC

VARIABLES
    configuration,          \* Comb::configuration
    irescale,               \* Comb::irescale
    frameHeight,            \* Comb::frameHeight
    previousFrameBuffer,    \* Comb::previousFrameBuffer
    diag,                   \* what the last setConfiguration() call logged
    op,                     \* the operation that produced this state
    call,                   \* history of the last process() call
    probe                   \* inputs and results of the pure-function runs

vars == <<configuration, irescale, frameHeight, previousFrameBuffer, diag, op, call, probe>>

(***************************************************************************)
(* qreal arithmetic                                                        *)
(*                                                                         *)
(* A qreal is <<n, 1>>, the finite value n / Resolution, or one of the     *)
(* three values a division by zero produces: <<1, 0>> (+inf), <<-1, 0>>     *)
(* (-inf) and <<0, 0>> (NaN).  Results are rounded toward zero.            *)
(***************************************************************************)
\* The precision of a qreal: every finite value is a multiple of 1/Resolution
Resolution == 64

Abs(x) == IF x < 0 THEN -x ELSE x

Sign(x) == IF x < 0 THEN -1 ELSE IF x > 0 THEN 1 ELSE 0

\* C++ integer division: the quotient is truncated toward zero
TruncDiv(a, b) == Sign(a) * Sign(b) * (Abs(a) \div Abs(b))

\* (a * b) / c truncated toward zero, computed without forming a * b
MulDiv(a, b, c) ==
    Sign(a) * Sign(b) * Sign(c)
    * (((Abs(a) \div Abs(c)) * Abs(b)) + (((Abs(a) % Abs(c)) * Abs(b)) \div Abs(c)))

\* The integer i as a qreal
R(i) == <<i * Resolution, 1>>

\* The literal n/d as a qreal
Frac(n, d) == <<TruncDiv(n * Resolution, d), 1>>

Zero == R(0)

One == R(1)

NaN == <<0, 0>>

IsNaN(a) == a = NaN

IsFinite(a) == a[2] = 1

RNeg(a) == <<-a[1], a[2]>>

RAdd(a, b) ==
    IF a[2] = 1 /\ b[2] = 1 THEN <<a[1] + b[1], 1>>
    ELSE IF a[2] = 1 THEN b
    ELSE IF b[2] = 1 THEN a
    ELSE IF a[1] = b[1] THEN a ELSE NaN

RSub(a, b) == RAdd(a, RNeg(b))

RMul(a, b) ==
    IF a[2] = 1 /\ b[2] = 1
    THEN (IF Abs(a[1]) >= Abs(b[1])
          THEN <<MulDiv(a[1], b[1], Resolution), 1>>
          ELSE <<MulDiv(b[1], a[1], Resolution), 1>>)
    ELSE <<Sign(a[1]) * Sign(b[1]), 0>>

RDiv(a, b) ==
    IF a[2] = 1 /\ b[2] = 1
    THEN (IF b[1] = 0 THEN <<Sign(a[1]), 0>> ELSE <<MulDiv(a[1], Resolution, b[1]), 1>>)
    ELSE IF a[2] = 1 THEN (IF IsNaN(b) THEN NaN ELSE Zero)
    ELSE IF b[2] = 1 THEN <<a[1] * (IF b[1] < 0 THEN -1 ELSE 1), 0>>
    ELSE NaN

\* a < b; every comparison with NaN is false
RLt(a, b) ==
    IF a[2] = 1 /\ b[2] = 1 THEN a[1] < b[1]
    ELSE /\ ~IsNaN(a)
         /\ ~IsNaN(b)
         /\ (IF a[2] = 0 THEN a[1] ELSE 0) < (IF b[2] = 0 THEN b[1] ELSE 0)

RGt(a, b) == RLt(b, a)

RLe(a, b) == ~IsNaN(a) /\ ~IsNaN(b) /\ ~RLt(b, a)

\* fabs()
RAbs(a) == <<Abs(a[1]), a[2]>>

\* static_cast<qint32>/<quint16> of a finite qreal: the fraction is dropped
Trunc(a) == TruncDiv(a[1], Resolution)

(***************************************************************************)
(* Bounds of the model                                                     *)
(***************************************************************************)
\* Columns of the active window: activeVideoEnd - activeVideoStart
WindowCols == 2

\* Rows of the visible window: frameHeight - firstVisibleFrameLine
WindowRows == 4

\* Field height of the small frame, whose visible window starts below line 4
SmallFieldHeight == 4

(***************************************************************************)
(* Comb::Comb and Comb::setConfiguration                                   *)
(***************************************************************************)
MaxFieldWidth == 910

MaxFrameHeight == 525

MinActiveVideoStart == 16

DefaultFieldWidth == 910

DefaultFieldHeight == 263

DefaultActiveVideoStart == 40

DefaultBlackIre == 15360

DefaultWhiteIre == 51200

\* A frame height that counts one line too many
M_FrameHeightOf(c) == c.fieldHeight * 2

\* frameHeight as postConfigurationTasks derives it
FrameHeightOf(c) == (c.fieldHeight * 2) - 1

\* irescale as postConfigurationTasks derives it (the IRE levels are integers)
IreScaleOf(c) == R(TruncDiv(c.whiteIre - c.blackIre, 100))

\* The configuration the constructor installs.  The active window of the
\* constructor (columns 40..840, lines 43..525) is cut down to the last
\* WindowRows lines and the first WindowCols active columns.
DefaultConfiguration ==
    [ blackAndWhite         |-> FALSE,
      whitePoint100         |-> FALSE,
      colorlpf              |-> TRUE,
      colorlpf_hq           |-> TRUE,
      fieldWidth            |-> DefaultFieldWidth,
      fieldHeight           |-> DefaultFieldHeight,
      activeVideoStart      |-> DefaultActiveVideoStart,
      activeVideoEnd        |-> DefaultActiveVideoStart + WindowCols,
      firstVisibleFrameLine |-> ((DefaultFieldHeight * 2) - 1) - WindowRows,
      blackIre              |-> DefaultBlackIre,
      whiteIre              |-> DefaultWhiteIre,
      use3D                 |-> FALSE,
      showOpticalFlowMap    |-> FALSE ]

\* The same window in a frame of another geometry
Geometry(c, width, height, start) ==
    [c EXCEPT !.fieldWidth = width,
              !.fieldHeight = height,
              !.activeVideoStart = start,
              !.activeVideoEnd = start + WindowCols,
              !.firstVisibleFrameLine = ((height * 2) - 1) - WindowRows]

\* The configurations a caller passes to setConfiguration
Configurations ==
    LET d  == DefaultConfiguration
        d3 == [d EXCEPT !.use3D = TRUE]
    IN  { d,
          [d EXCEPT !.colorlpf = FALSE, !.blackAndWhite = TRUE],
          d3,
          [d3 EXCEPT !.colorlpf = FALSE, !.showOpticalFlowMap = TRUE],
          Geometry(d, DefaultFieldWidth, SmallFieldHeight, MinActiveVideoStart),
          Geometry(d, MaxFieldWidth + 1, DefaultFieldHeight, DefaultActiveVideoStart),
          Geometry(d, DefaultFieldWidth, DefaultFieldHeight + 1, DefaultActiveVideoStart),
          Geometry(d, DefaultFieldWidth, DefaultFieldHeight, MinActiveVideoStart - 1) }

\* The range checks of setConfiguration: what each qCritical() line tests
WidthDiagnostic(installed, param) == installed.fieldWidth > MaxFieldWidth

HeightDiagnostic(installed, param) == ((installed.fieldHeight * 2) - 1) > MaxFrameHeight

StartDiagnostic(installed, param) == param.activeVideoStart < MinActiveVideoStart

Diagnostics(installed, param) ==
    (IF WidthDiagnostic(installed, param) THEN {"width"} ELSE {})
    \cup (IF HeightDiagnostic(installed, param) THEN {"height"} ELSE {})
    \cup (IF StartDiagnostic(installed, param) THEN {"start"} ELSE {})

(***************************************************************************)
(* Buffers                                                                 *)
(***************************************************************************)
\* The contents of the field buffers a caller passes
FieldPatterns == {"flat", "step", "noise", "dim", "dusk"}

\* Sample idx of a field buffer (a quint16)
FieldSample(pat, idx) ==
    CASE pat = "flat"  -> DefaultBlackIre
      [] pat = "step"  -> IF (idx % 4) < 2 THEN 20000 ELSE 44000
      [] pat = "noise" -> ((idx * 7919) + 101) % 65536
      [] pat = "dim"   -> 96 + (8 * (idx % 5))
      [] pat = "dusk"  -> 200 + (16 * (idx % 3))

\* What a read past the end of a byte array may return
GarbagePatterns == {"low", "high"}

GarbageSample(g, idx) == IF g = "low" THEN idx % 2 ELSE 65535 - (idx % 3)

\* QByteArray() : the retained frame's raw buffer before the first 3D call
EmptyRaw == [width |-> 0, lines |-> 0, first |-> "none", second |-> "none"]

\* The interlacing loop of process(): for frameLine = 0, 2, ... < frameHeight one
\* line of the first field and one of the second are appended.  The field
\* buffers hold fieldHeight lines of fieldWidth samples, so every mid() is a
\* whole line.
Interlace(c, fh, firstField, secondField) ==
    [ width  |-> c.fieldWidth,
      lines  |-> 2 * ((fh + 1) \div 2),
      first  |-> firstField,
      second |-> secondField ]

\* Number of 16-bit samples in a raw buffer
RawSize(raw) == raw.lines * raw.width

\* quint16 read at sample offset idx of a raw buffer's data(); a read past the
\* end of the array returns whatever g says lies there
RawRead(raw, idx, g) ==
    IF idx >= 0 /\ idx < RawSize(raw)
    THEN LET line == idx \div raw.width
             col  == idx % raw.width
         IN  FieldSample(IF line % 2 = 0 THEN raw.first ELSE raw.second,
                         ((line \div 2) * raw.width) + col)
    ELSE GarbageSample(g, idx)

\* The loop ranges every pass shares
Lines(e) == e.c.firstVisibleFrameLine .. (e.frameHeight - 1)

Cols(e) == e.c.activeVideoStart .. (e.c.activeVideoEnd - 1)

Window(e) == Lines(e) \X Cols(e)

\* pixel[line][h] of a chroma plane: elements never written hold zero
PlaneRead(plane, line, h) ==
    IF <<line, h>> \in DOMAIN plane THEN plane[<<line, h>>] ELSE Zero

ZeroYiq == [y |-> Zero, i |-> Zero, q |-> Zero]

\* yiqBuffer[line][h]: elements never written hold a zero YIQ
YiqRead(yiq, line, h) ==
    IF <<line, h>> \in DOMAIN yiq THEN yiq[<<line, h>>] ELSE ZeroYiq

\* A plane with the elements of `written` replacing those of `old`
Overwrite(old, written) == written @@ old

EmptyPlane == [x \in {} |-> Zero]

\* The function f with every element evaluated
Stored(f) == f @@ EmptyPlane

(***************************************************************************)
(* Filter (a running FIR filter; its state starts at zero)                 *)
(***************************************************************************)
f_colorlpi == <<Frac(1, 4), Frac(1, 2), Frac(1, 4)>>

f_colorlpq == <<Frac(1, 2), Frac(1, 2)>>

\* How far right of a column the noise reducers read hplinef
NoiseLookahead == 12

\* The high-pass filters of the noise reducers: the sample NoiseLookahead
\* feeds back less the mean of the samples around it, so that the output read
\* NoiseLookahead columns ahead is the residual of the column itself
f_nr ==
    [k \in 1..((2 * NoiseLookahead) + 1) |->
        IF k = NoiseLookahead + 1 THEN Frac(24, 32) ELSE Frac(-1, 32)]

f_nrc ==
    [k \in 1..((2 * NoiseLookahead) + 1) |->
        IF k = NoiseLookahead + 1 THEN Frac(24, 32) ELSE Frac(-1, 32)]

\* Filter(taps): the constructor
FilterNew(taps) == [taps |-> taps, x |-> [k \in 1..Len(taps) |-> Zero]]

\* The state after feed(v)
FilterPush(f, v) ==
    [f EXCEPT !.x = Stored([k \in 1..Len(f.taps) |-> IF k = 1 THEN v ELSE f.x[k - 1]])]

\* The sum of taps[k] * x[k] over k in lo..hi
RECURSIVE FilterSum(_, _, _)
FilterSum(f, lo, hi) ==
    IF lo = hi THEN RMul(f.taps[lo], f.x[lo])
    ELSE RAdd(FilterSum(f, lo, (lo + hi) \div 2), FilterSum(f, ((lo + hi) \div 2) + 1, hi))

\* The value feed() returned, read from the state it left
FilterOut(f) == FilterSum(f, 1, Len(f.taps))

(***************************************************************************)
(* Comb::split1D                                                           *)
(***************************************************************************)
\* The phase inversion loop of split1D: invertphase of every line from
\* lineNumber on, given the two flags as the earlier lines left them
RECURSIVE Split1DPhase(_, _, _, _)
Split1DPhase(e, lineNumber, topInvertphase, bottomInvertphase) ==
    IF lineNumber >= e.frameHeight THEN [l \in {} |-> FALSE]
    ELSE LET top    == IF lineNumber % 2 = 0 THEN ~topInvertphase ELSE topInvertphase
             bottom == IF lineNumber % 2 = 0 THEN bottomInvertphase ELSE ~bottomInvertphase
             invertphase == IF lineNumber % 2 = 0 THEN top ELSE bottom
         IN  (lineNumber :> invertphase) @@ Split1DPhase(e, lineNumber + 1, top, bottom)

Split1DInvert(e, firstFieldPhaseID, secondFieldPhaseID) ==
    Split1DPhase(e, e.c.firstVisibleFrameLine,
                 firstFieldPhaseID = 2 \/ firstFieldPhaseID = 3,
                 secondFieldPhaseID = 1 \/ secondFieldPhaseID = 4)

\* The column loop of split1D on one line: tc1 and tc1f of every column from
\* h on, given the two line filters as the earlier columns left them
RECURSIVE Split1DCols(_, _, _, _, _, _, _, _)
Split1DCols(e, raw, lineNumber, invertphase, g, h, f_1di, f_1dq) ==
    IF h >= e.c.activeVideoEnd THEN [x \in {} |-> [tc1 |-> Zero, tc1f |-> Zero]]
    ELSE LET base  == lineNumber * e.c.fieldWidth
             phase == h % 4
             tc1a  == R(TruncDiv(RawRead(raw, base + h + 2, g) + RawRead(raw, base + h - 2, g), 2)
                        - RawRead(raw, base + h, g))
             tc1b  == IF ~invertphase THEN RNeg(tc1a) ELSE tc1a
             fi    == CASE phase = 0 -> FilterPush(f_1di, tc1b)
                        [] phase = 2 -> FilterPush(f_1di, RNeg(tc1b))
                        [] OTHER     -> f_1di
             fq    == CASE phase = 1 -> FilterPush(f_1dq, RNeg(tc1b))
                        [] phase = 3 -> FilterPush(f_1dq, tc1b)
                        [] OTHER     -> f_1dq
             tc1fa == CASE phase = 0 -> FilterOut(fi)
                        [] phase = 1 -> RNeg(FilterOut(fq))
                        [] phase = 2 -> RNeg(FilterOut(fi))
                        [] phase = 3 -> FilterOut(fq)
             tc1   == IF ~invertphase THEN RNeg(tc1b) ELSE tc1b
             tc1f  == IF ~invertphase THEN RNeg(tc1fa) ELSE tc1fa
         IN  (h :> [tc1 |-> tc1, tc1f |-> tc1f])
             @@ Split1DCols(e, raw, lineNumber, invertphase, g, h + 1, fi, fq)

\* tc1 and tc1f of every column of every visible line
Split1DValues(e, fb, g) ==
    LET inv == Split1DInvert(e, fb.firstFieldPhaseID, fb.secondFieldPhaseID)
    IN  [lineNumber \in Lines(e) |->
            Split1DCols(e, fb.rawbuffer, lineNumber, inv[lineNumber], g,
                        e.c.activeVideoStart, FilterNew(f_colorlpi), FilterNew(f_colorlpq))]

\* What split1D records in clpbuffer[0]
Split1DRecorded(v) == v.tc1

\* clpbuffer[0] after split1D
Split1D(e, fb, g) ==
    LET v == Split1DValues(e, fb, g)
    IN  Stored([x \in Window(e) |-> Split1DRecorded(v[x[1]][x[2]])])

(***************************************************************************)
(* Comb::split2D and Comb::clamp                                           *)
(***************************************************************************)
clamp(v, low, high) ==
    IF RLt(v, low) THEN low ELSE IF RGt(v, high) THEN high ELSE v

\* The weights of one element: cur, prev and next are the 1D values at
\* columns h (index 1) and h - 1 (index 2) of lines lineNumber,
\* lineNumber - 2 and lineNumber + 2
Split2DWeights(ire, cur, prev, next) ==
    LET tenth == Frac(1, 10)
        kp0 == RSub(RAdd(RAbs(RSub(RAbs(cur[1]), RAbs(prev[1]))),
                         RAbs(RSub(RAbs(cur[2]), RAbs(prev[2])))),
                    RMul(RAdd(RAbs(cur[1]), RAbs(cur[2])), tenth))
        kn0 == RSub(RAdd(RAbs(RSub(RAbs(cur[1]), RAbs(next[1]))),
                         RAbs(RSub(RAbs(cur[2]), RAbs(next[2])))),
                    RMul(RAdd(RAbs(cur[1]), RAbs(next[2])), tenth))
        p_2drange == RMul(R(45), ire)
        kpc == clamp(RSub(One, RDiv(RDiv(kp0, R(2)), p_2drange)), Zero, One)
        knc == clamp(RSub(One, RDiv(RDiv(kn0, R(2)), p_2drange)), Zero, One)
        some == RGt(knc, Zero) \/ RGt(kpc, Zero)
        flat == RLe(RSub(RAbs(RSub(RAbs(prev[1]), RAbs(next[1]))),
                         RAbs(RMul(RAdd(next[1], prev[1]), Frac(2, 10)))), Zero)
        kp  == IF some
               THEN (IF RGt(knc, RMul(R(3), kpc)) THEN Zero ELSE kpc)
               ELSE (IF flat THEN One ELSE kpc)
        kn  == IF some
               THEN (IF RGt(knc, RMul(R(3), kpc)) THEN knc
                     ELSE IF RGt(kpc, RMul(R(3), knc)) THEN Zero ELSE knc)
               ELSE (IF flat THEN One ELSE knc)
        sc0 == RDiv(R(2), RAdd(kn, kp))
        sc  == IF some THEN (IF RLt(sc0, One) THEN One ELSE sc0) ELSE One
    IN  [kpc |-> kpc, knc |-> knc, kp |-> kp, kn |-> kn, sc |-> sc]

\* A line loop of split2D without the guard, starting one line early
M_Split2DLines(e) == (e.c.firstVisibleFrameLine - 1) .. (e.frameHeight - 2)

\* The lines split2D filters
Split2DLines(e) ==
    {lineNumber \in Lines(e) : lineNumber >= 4 /\ lineNumber < e.frameHeight - 1}

\* The elements of clpbuffer[0] split2D reads for element (lineNumber, h)
Split2DReadsAt(lineNumber, h) ==
    {lineNumber - 2, lineNumber, lineNumber + 2} \X {h, h - 1}

Split2DReads(e) ==
    UNION {Split2DReadsAt(x[1], x[2]) : x \in Split2DLines(e) \X Cols(e)}

\* The weights of element (lineNumber, h)
Split2DWeightsAt(e, clp0, lineNumber, h) ==
    Split2DWeights(e.irescale,
        <<PlaneRead(clp0, lineNumber, h), PlaneRead(clp0, lineNumber, h - 1)>>,
        <<PlaneRead(clp0, lineNumber - 2, h), PlaneRead(clp0, lineNumber - 2, h - 1)>>,
        <<PlaneRead(clp0, lineNumber + 2, h), PlaneRead(clp0, lineNumber + 2, h - 1)>>)

\* tc1 of an element with weights w whose value is c, between prev and next
Split2DMix(w, c, prev, next) ==
    RDiv(RAdd(RMul(RMul(RSub(c, prev), w.kp), w.sc),
              RMul(RMul(RSub(c, next), w.kn), w.sc)), R(8))

\* The 2D value of element (lineNumber, h)
Split2DValue(e, clp0, lineNumber, h) ==
    Split2DMix(Split2DWeightsAt(e, clp0, lineNumber, h),
               PlaneRead(clp0, lineNumber, h),
               PlaneRead(clp0, lineNumber - 2, h),
               PlaneRead(clp0, lineNumber + 2, h))

\* clpbuffer[1] after split2D
Split2D(e, clp0) ==
    Stored([x \in Split2DLines(e) \X Cols(e) |-> Split2DValue(e, clp0, x[1], x[2])])

(***************************************************************************)
(* Comb::split3D                                                           *)
(***************************************************************************)
\* The index split3D reads of both raw buffers for element (lineNumber, h)
Split3DIndex(e, lineNumber, h) == (lineNumber * e.c.fieldWidth) + h

Split3DValue(previousSample, currentSample) ==
    R(TruncDiv(previousSample - currentSample, 2))

\* clpbuffer[2] after split3D
Split3D(e, currentFrame, previousFrame, g) ==
    Stored([x \in Window(e) |->
        Split3DValue(RawRead(previousFrame.rawbuffer, Split3DIndex(e, x[1], x[2]), g),
                     RawRead(currentFrame.rawbuffer, Split3DIndex(e, x[1], x[2]), g))])

(***************************************************************************)
(* The motion map of the optical flow collaborator                         *)
(***************************************************************************)
\* Line stride of the motion map
KStride == 910

\* The maps denseOpticalFlow may leave in kValues: none, or one K per element
KPatterns == {"none", "mixed"}

KValues(e, pat) ==
    [size |-> IF pat = "none" THEN 0 ELSE KStride * (e.frameHeight + 1), pat |-> pat]

EmptyKValues == [size |-> 0, pat |-> "none"]

\* kValues[idx]; a read past the end of the vector returns whatever g says
KRead(k, idx, g) ==
    IF idx >= 0 /\ idx < k.size
    THEN (IF idx % 2 = 0 THEN Frac(1, 2) ELSE Frac(1, 4))
    ELSE Frac(GarbageSample(g, idx) % 3, 2)

(***************************************************************************)
(* Comb::splitIQ                                                           *)
(***************************************************************************)
RECURSIVE SplitIQPhase(_, _, _, _)
SplitIQPhase(e, lineNumber, topInvertphase, bottomInvertphase) ==
    IF lineNumber >= e.frameHeight THEN [l \in {} |-> FALSE]
    ELSE LET top    == IF lineNumber % 2 = 0 THEN ~topInvertphase ELSE topInvertphase
             bottom == IF lineNumber % 2 = 0 THEN bottomInvertphase ELSE ~bottomInvertphase
             invertphase == IF lineNumber % 2 = 0 THEN top ELSE bottom
         IN  (lineNumber :> invertphase) @@ SplitIQPhase(e, lineNumber + 1, top, bottom)

SplitIQInvert(e, firstFieldPhaseID, secondFieldPhaseID) ==
    SplitIQPhase(e, e.c.firstVisibleFrameLine,
                 firstFieldPhaseID = 2 \/ firstFieldPhaseID = 3,
                 secondFieldPhaseID = 1 \/ secondFieldPhaseID = 4)

\* Whether splitIQ mixes the 3D estimate in
SplitIQMixes(e, fb) == e.c.use3D /\ fb.kValues.size # 0

\* cavg of element (lineNumber, h) before the sign correction
SplitIQCavg(e, fb, lineNumber, h, g) ==
    IF SplitIQMixes(e, fb)
    THEN LET k == KRead(fb.kValues, (lineNumber * KStride) + h, g)
         IN  RAdd(RMul(PlaneRead(fb.clp1, lineNumber, h), k),
                  RMul(PlaneRead(fb.clp2, lineNumber, h), RSub(One, k)))
    ELSE PlaneRead(fb.clp1, lineNumber, h)

\* The column loop of splitIQ on one line, given si and sq as the earlier
\* columns left them
RECURSIVE SplitIQCols(_, _, _, _, _, _, _, _)
SplitIQCols(e, fb, lineNumber, invertphase, g, h, si, sq) ==
    IF h >= e.c.activeVideoEnd THEN [x \in {} |-> ZeroYiq]
    ELSE LET phase == h % 4
             cavg0 == SplitIQCavg(e, fb, lineNumber, h, g)
             cavg  == IF ~invertphase THEN RNeg(cavg0) ELSE cavg0
             si2   == CASE phase = 1 -> RNeg(cavg) [] phase = 3 -> cavg [] OTHER -> si
             sq2   == CASE phase = 0 -> cavg [] phase = 2 -> RNeg(cavg) [] OTHER -> sq
             y     == R(RawRead(fb.rawbuffer, (lineNumber * e.c.fieldWidth) + h, g))
         IN  (h :> [y |-> y, i |-> si2, q |-> sq2])
             @@ SplitIQCols(e, fb, lineNumber, invertphase, g, h + 1, si2, sq2)

\* yiqBuffer after splitIQ (the buffer is cleared first)
SplitIQ(e, fb, g) ==
    LET inv  == SplitIQInvert(e, fb.firstFieldPhaseID, fb.secondFieldPhaseID)
        rows == [lineNumber \in Lines(e) |->
                    SplitIQCols(e, fb, lineNumber, inv[lineNumber], g,
                                e.c.activeVideoStart, Zero, Zero)]
    IN  Stored([x \in Window(e) |-> rows[x[1]][x[2]]])

(***************************************************************************)
(* Comb::filterIQ                                                          *)
(***************************************************************************)
\* The column offset filterIQ writes at
FilterIQOffset == 2

\* The column loop of filterIQ on one line: what is written at column
\* h - qoffset, for every column from h on
RECURSIVE FilterIQCols(_, _, _, _, _, _, _, _)
FilterIQCols(e, yiqBuffer, lineNumber, h, f_i, f_q, filti, filtq) ==
    IF h >= e.c.activeVideoEnd THEN [x \in {} |-> ZeroYiq]
    ELSE LET phase == h % 4
             in    == YiqRead(yiqBuffer, lineNumber, h)
             fi    == IF phase % 2 = 0 THEN FilterPush(f_i, in.i) ELSE f_i
             fq    == IF phase % 2 = 1 THEN FilterPush(f_q, in.q) ELSE f_q
             i2    == IF phase % 2 = 0 THEN FilterOut(fi) ELSE filti
             q2    == IF phase % 2 = 1 THEN FilterOut(fq) ELSE filtq
             old   == YiqRead(yiqBuffer, lineNumber, h - FilterIQOffset)
         IN  ((h - FilterIQOffset) :> [y |-> old.y, i |-> i2, q |-> q2])
             @@ FilterIQCols(e, yiqBuffer, lineNumber, h + 1, fi, fq, i2, q2)

\* The elements filterIQ writes, with their new values
FilterIQWritten(e, yiqBuffer) ==
    LET rows == [lineNumber \in Lines(e) |->
                    FilterIQCols(e, yiqBuffer, lineNumber, e.c.activeVideoStart,
                                 FilterNew(IF e.c.colorlpf_hq THEN f_colorlpi ELSE f_colorlpi),
                                 FilterNew(IF e.c.colorlpf_hq THEN f_colorlpi ELSE f_colorlpq),
                                 Zero, Zero)]
    IN  Stored([x \in {<<w[1], w[2] - FilterIQOffset>> : w \in Window(e)} |-> rows[x[1]][x[2]]])

FilterIQ(e, yiqBuffer) == Overwrite(yiqBuffer, FilterIQWritten(e, yiqBuffer))

(***************************************************************************)
(* Comb::adjustY                                                           *)
(***************************************************************************)
RECURSIVE AdjustYPhase(_, _, _, _)
AdjustYPhase(e, lineNumber, topInvertphase, bottomInvertphase) ==
    IF lineNumber >= e.frameHeight THEN [l \in {} |-> FALSE]
    ELSE LET top    == IF lineNumber % 2 = 0 THEN ~topInvertphase ELSE topInvertphase
             bottom == IF lineNumber % 2 = 0 THEN bottomInvertphase ELSE ~bottomInvertphase
             invertphase == IF lineNumber % 2 = 0 THEN top ELSE bottom
         IN  (lineNumber :> invertphase) @@ AdjustYPhase(e, lineNumber + 1, top, bottom)

\* An adjustY whose odd-line flag starts from the wrong phase IDs
M_AdjustYInvert(e, firstFieldPhaseID, secondFieldPhaseID) ==
    AdjustYPhase(e, e.c.firstVisibleFrameLine,
                 firstFieldPhaseID = 2 \/ firstFieldPhaseID = 3,
                 secondFieldPhaseID = 2 \/ secondFieldPhaseID = 3)

AdjustYInvert(e, firstFieldPhaseID, secondFieldPhaseID) ==
    AdjustYPhase(e, e.c.firstVisibleFrameLine,
                 firstFieldPhaseID = 2 \/ firstFieldPhaseID = 3,
                 secondFieldPhaseID = 1 \/ secondFieldPhaseID = 4)

\* What adjustY stores at column h: the element two columns to the right,
\* its y corrected
AdjustYValue(yiqBuffer, lineNumber, h, invertphase) ==
    LET y     == YiqRead(yiqBuffer, lineNumber, h + 2)
        phase == h % 4
        comp0 == CASE phase = 0 -> y.q
                   [] phase = 1 -> RNeg(y.i)
                   [] phase = 2 -> RNeg(y.q)
                   [] phase = 3 -> y.i
        comp  == IF invertphase THEN RNeg(comp0) ELSE comp0
    IN  [y EXCEPT !.y = RAdd(y.y, comp)]

\* The elements adjustY writes, with their new values (column h + 2 is read
\* before any column right of h - 1 is written)
AdjustYWritten(e, yiqBuffer, firstFieldPhaseID, secondFieldPhaseID) ==
    LET inv == AdjustYInvert(e, firstFieldPhaseID, secondFieldPhaseID)
    IN  Stored([x \in Window(e) |-> AdjustYValue(yiqBuffer, x[1], x[2] + 0, inv[x[1]])])

AdjustY(e, yiqBuffer, firstFieldPhaseID, secondFieldPhaseID) ==
    Overwrite(yiqBuffer, AdjustYWritten(e, yiqBuffer, firstFieldPhaseID, secondFieldPhaseID))

(***************************************************************************)
(* Comb::doYNR and Comb::doCNR                                             *)
(***************************************************************************)
\* hplinef[h]: elements never written hold zero
HpRead(hplinef, h) == IF h \in DOMAIN hplinef THEN hplinef[h] ELSE ZeroYiq

\* A noise reducer that subtracts the whole high-pass value
M_NoiseClip(a, nr) == a

\* The clipping of a high-pass value to [-nr, nr]
NoiseClip(a, nr) ==
    IF RGt(RAbs(a), nr) THEN (IF RGt(a, Zero) THEN nr ELSE RNeg(nr)) ELSE a

\* One step of the first column loop of doYNR: the filter and hplinef after
\* hplinef[h].y = f_hpy.feed(y)
DoYNRFeedStep(fed, h, y) ==
    [fed EXCEPT !.f = FilterPush(@, y),
                !.hplinef = (h :> [HpRead(@, h) EXCEPT !.y = FilterOut(FilterPush(fed.f, y))])
                            @@ @]

\* The first column loop of doYNR on one line, run from activeVideoStart up
\* to column h (the loop ends with h = activeVideoEnd): the filter and
\* hplinef after it, given both as the earlier lines left them
RECURSIVE DoYNRFeed(_, _, _, _, _, _)
DoYNRFeed(e, yiqBuffer, lineNumber, h, f_hpy, hplinef) ==
    IF h < e.c.activeVideoStart THEN [f |-> f_hpy, hplinef |-> hplinef]
    ELSE DoYNRFeedStep(DoYNRFeed(e, yiqBuffer, lineNumber, h - 1, f_hpy, hplinef),
                       h, YiqRead(yiqBuffer, lineNumber, h).y)

\* The line loop of doYNR: the elements written on the lines from lineNumber
\* on, given the filter and hplinef as the earlier lines left them
RECURSIVE DoYNRLines(_, _, _, _, _)
DoYNRLines(e, yiqBuffer, lineNumber, f_hpy, hplinef) ==
    IF lineNumber >= e.frameHeight THEN [x \in {} |-> ZeroYiq]
    ELSE LET fed  == DoYNRFeed(e, yiqBuffer, lineNumber, e.c.activeVideoEnd, f_hpy, hplinef)
             nr_y == RMul(R(1), e.irescale)
             line == Stored([x \in {lineNumber} \X Cols(e) |->
                        LET a   == NoiseClip(HpRead(fed.hplinef, x[2] + NoiseLookahead).y, nr_y)
                            old == YiqRead(yiqBuffer, lineNumber, x[2])
                        IN  [old EXCEPT !.y = RSub(old.y, a)]])
         IN  line @@ DoYNRLines(e, yiqBuffer, lineNumber + 1, fed.f, fed.hplinef)

DoYNRWritten(e, yiqBuffer) ==
    DoYNRLines(e, yiqBuffer, e.c.firstVisibleFrameLine, FilterNew(f_nr), [h \in {} |-> ZeroYiq])

DoYNR(e, yiqBuffer) == Overwrite(yiqBuffer, DoYNRWritten(e, yiqBuffer))

\* One step of the first column loop of doCNR: the filters and hplinef after
\* hplinef[h].i = f_hpi.feed(in.i) and hplinef[h].q = f_hpq.feed(in.q)
DoCNRFeedStep(fed, h, in) ==
    [fed EXCEPT !.fi = FilterPush(@, in.i),
                !.fq = FilterPush(@, in.q),
                !.hplinef = (h :> [HpRead(@, h) EXCEPT
                                      !.i = FilterOut(FilterPush(fed.fi, in.i)),
                                      !.q = FilterOut(FilterPush(fed.fq, in.q))])
                            @@ @]

\* The first column loop of doCNR on one line, run from activeVideoStart up
\* to column h (the loop ends with h = activeVideoEnd)
RECURSIVE DoCNRFeed(_, _, _, _, _, _, _)
DoCNRFeed(e, yiqBuffer, lineNumber, h, f_hpi, f_hpq, hplinef) ==
    IF h < e.c.activeVideoStart THEN [fi |-> f_hpi, fq |-> f_hpq, hplinef |-> hplinef]
    ELSE DoCNRFeedStep(DoCNRFeed(e, yiqBuffer, lineNumber, h - 1, f_hpi, f_hpq, hplinef),
                       h, YiqRead(yiqBuffer, lineNumber, h))

\* The line loop of doCNR
RECURSIVE DoCNRLines(_, _, _, _, _, _)
DoCNRLines(e, yiqBuffer, lineNumber, f_hpi, f_hpq, hplinef) ==
    IF lineNumber >= e.frameHeight THEN [x \in {} |-> ZeroYiq]
    ELSE LET fed  == DoCNRFeed(e, yiqBuffer, lineNumber, e.c.activeVideoEnd,
                               f_hpi, f_hpq, hplinef)
             nr_c == RMul(R(0), e.irescale)
             line == Stored([x \in {lineNumber} \X Cols(e) |->
                        LET hp  == HpRead(fed.hplinef, x[2] + NoiseLookahead)
                            old == YiqRead(yiqBuffer, lineNumber, x[2])
                        IN  [old EXCEPT !.i = RSub(old.i, NoiseClip(hp.i, nr_c)),
                                        !.q = RSub(old.q, NoiseClip(hp.q, nr_c))]])
         IN  line @@ DoCNRLines(e, yiqBuffer, lineNumber + 1, fed.fi, fed.fq, fed.hplinef)

DoCNRWritten(e, yiqBuffer) ==
    DoCNRLines(e, yiqBuffer, e.c.firstVisibleFrameLine,
               FilterNew(f_nrc), FilterNew(f_nrc), [h \in {} |-> ZeroYiq])

DoCNR(e, yiqBuffer) == Overwrite(yiqBuffer, DoCNRWritten(e, yiqBuffer))

(***************************************************************************)
(* RGB::conv, Comb::yiqToRgbFrame and Comb::overlayOpticalFlowMap          *)
(***************************************************************************)
\* The largest 16-bit value
MaxRgb == 65535

\* static_cast<quint16> of a qreal; the cast of a value that is not finite is
\* undefined and returns whatever g says
ToQuint16(v, g) == IF IsFinite(v) THEN Trunc(v) % (MaxRgb + 1) ELSE GarbageSample(g, 0)

\* The burst levels a caller passes
BurstLevels == {R(20)}

\* RGB::conv: the calibrated conversion of one YIQ value.  Y is scaled from
\* the black..white IRE range to the 16-bit range (to 75% of it unless
\* whitePoint100), monochrome mode drops the chroma, the chroma gain follows
\* the burst level, and each channel is clamped to the 16-bit range.
RgbConv(c, yiq, burstLevel) ==
    LET full  == IF c.whitePoint100 THEN R(MaxRgb) ELSE RMul(R(MaxRgb), Frac(3, 4))
        scale == RDiv(full, R(c.whiteIre - c.blackIre))
        y     == clamp(RMul(RSub(yiq.y, R(c.blackIre)), scale), Zero, R(MaxRgb))
        gain  == RDiv(R(20), burstLevel)
        i     == IF c.blackAndWhite THEN Zero ELSE RMul(yiq.i, gain)
        q     == IF c.blackAndWhite THEN Zero ELSE RMul(yiq.q, gain)
        r     == RAdd(y, RAdd(RMul(Frac(956, 1000), i), RMul(Frac(621, 1000), q)))
        gr    == RAdd(y, RAdd(RMul(Frac(-272, 1000), i), RMul(Frac(-647, 1000), q)))
        b     == RAdd(y, RAdd(RMul(Frac(-1106, 1000), i), RMul(Frac(1703, 1000), q)))
    IN  [r |-> clamp(r, Zero, R(MaxRgb)),
         g |-> clamp(gr, Zero, R(MaxRgb)),
         b |-> clamp(b, Zero, R(MaxRgb))]

\* Length in bytes of the frame yiqToRgbFrame returns
RgbFrameSize(e) == ((e.c.fieldWidth * e.frameHeight) * 3) * 2

\* Index (in 16-bit units) of the first channel yiqToRgbFrame writes for
\* element (lineNumber, h): o starts at activeVideoStart * 3 + 6
RgbIndex(e, lineNumber, h) ==
    ((e.c.fieldWidth * 3) * lineNumber)
    + ((e.c.activeVideoStart * 3) + 6) + (3 * (h - e.c.activeVideoStart))

\* 16-bit value at index idx of an RGB frame: the frame is filled with zero
RgbRead(px, idx) == IF idx \in DOMAIN px THEN px[idx] ELSE 0

\* The three values yiqToRgbFrame writes for one element, at o, o + 1, o + 2
RgbTriple(at, r, gr, b) == (at :> r) @@ ((at + 1) :> gr) @@ ((at + 2) :> b)

\* The values written for the elements of todo
RECURSIVE RgbWritten(_, _, _, _, _)
RgbWritten(e, yiqBuffer, burstLevel, g, todo) ==
    IF todo = {} THEN [idx \in {} |-> 0]
    ELSE LET x   == CHOOSE w \in todo : TRUE
             rgb == RgbConv(e.c, YiqRead(yiqBuffer, x[1], x[2]), burstLevel)
         IN  RgbTriple(RgbIndex(e, x[1], x[2]),
                       ToQuint16(rgb.r, g), ToQuint16(rgb.g, g), ToQuint16(rgb.b, g))
             @@ RgbWritten(e, yiqBuffer, burstLevel, g, todo \ {x})

\* The frame yiqToRgbFrame returns: its length in bytes and the values it
\* wrote (the elements of different columns do not overlap)
YiqToRgbFrame(e, yiqBuffer, burstLevel, g) ==
    [ size |-> RgbFrameSize(e),
      px   |-> RgbWritten(e, yiqBuffer, burstLevel, g, Window(e)) ]

\* What overlayOpticalFlowMap stores at h*3, h*3 + 1 and h*3 + 2 of a line
OverlayValues(px, base, intensity) ==
    LET red   == RgbRead(px, base) + intensity
        green == RgbRead(px, base + 2)
        blue  == RgbRead(px, base + 2) + intensity
        cap(v) == IF v > MaxRgb THEN MaxRgb ELSE v
    IN  <<cap(red) % (MaxRgb + 1), cap(green) % (MaxRgb + 1), cap(blue) % (MaxRgb + 1)>>

\* The values overlayOpticalFlowMap writes into the RGB frame for the
\* elements of todo (h*3 .. h*3 + 2 is read and written for column h alone)
RECURSIVE OverlayWritten(_, _, _, _, _)
OverlayWritten(e, frameBuffer, px, g, todo) ==
    IF todo = {} THEN [idx \in {} |-> 0]
    ELSE LET x  == CHOOSE w \in todo : TRUE
             at == ((e.c.fieldWidth * 3) * x[1]) + (x[2] * 3)
             k  == KRead(frameBuffer.kValues, (x[1] * KStride) + x[2], g)
             v  == OverlayValues(px, at, Trunc(RMul(k, R(MaxRgb))))
         IN  RgbTriple(at, v[1], v[2], v[3])
             @@ OverlayWritten(e, frameBuffer, px, g, todo \ {x})

OverlayOpticalFlowMap(e, frameBuffer, rgbFrame, g) ==
    [rgbFrame EXCEPT !.px = Overwrite(rgbFrame.px,
        OverlayWritten(e, frameBuffer, rgbFrame.px, g, Window(e)))]

(***************************************************************************)
(* Comb::process                                                           *)
(***************************************************************************)
\* The phase IDs a caller passes for the two fields
PhaseIDs == 1..4

\* The pairs of phase IDs process() is run with (consecutive fields)
PhasePairs == {<<1, 2>>, <<2, 3>>}

\* The pairs of field buffers process() is run with
FieldPairs == {<<"flat", "step">>, <<"step", "noise">>}

\* The engine members every pass reads
Engine(c, ire, fh) == [c |-> c, irescale |-> ire, frameHeight |-> fh]

\* The retained frame before the first 3D call
EmptyFrameBuffer == [rawbuffer |-> EmptyRaw]

\* currentFrameBuffer once the fields are interlaced and the burst level and
\* phase IDs are set
NewFrameBuffer(e, firstField, secondField, burstMedianIre, firstFieldPhaseID, secondFieldPhaseID) ==
    [ rawbuffer          |-> Interlace(e.c, e.frameHeight, firstField, secondField),
      clp0               |-> EmptyPlane,
      clp1               |-> EmptyPlane,
      clp2               |-> EmptyPlane,
      kValues            |-> EmptyKValues,
      yiqBuffer          |-> [x \in {} |-> ZeroYiq],
      burstLevel         |-> burstMedianIre,
      firstFieldPhaseID  |-> firstFieldPhaseID,
      secondFieldPhaseID |-> secondFieldPhaseID ]

\* The elements each pass has written so far
NoWrites ==
    [ split1D |-> {}, split2D |-> {}, split3D |-> {}, splitIQ |-> {},
      adjustY |-> {}, filterIQ |-> {}, doYNR |-> {}, doCNR |-> {} ]

\* The locals of process() before the first pass: currentFrameBuffer (frame),
\* tempYiqBuffer (temp) and rgbOutputBuffer (out), with the retained frame
\* (retained), the plane doYNR was last handed (ynrIn), the indices read of
\* the retained frame's raw samples (prevReads) and the elements written
NewWork(fb0, previous) ==
    [ frame     |-> fb0,
      temp      |-> [x \in {} |-> ZeroYiq],
      ynrIn     |-> [x \in {} |-> ZeroYiq],
      out       |-> [size |-> 0, px |-> [idx \in {} |-> 0]],
      retained  |-> previous,
      prevReads |-> {},
      writes    |-> NoWrites ]

\* split1D(&currentFrameBuffer)
RunSplit1D(e, g, w) ==
    LET clp0 == Split1D(e, w.frame, g)
    IN  [w EXCEPT !.frame.clp0 = clp0, !.writes.split1D = @ \cup DOMAIN clp0]

\* split2D(&currentFrameBuffer)
RunSplit2D(e, w) ==
    LET clp1 == Split2D(e, w.frame.clp0)
    IN  [w EXCEPT !.frame.clp1 = clp1, !.writes.split2D = @ \cup DOMAIN clp1]

\* opticalFlow.denseOpticalFlow(...): kpat is the motion map it leaves
RunOpticalFlow(e, kpat, w) == [w EXCEPT !.frame.kValues = KValues(e, kpat)]

\* split3D(&currentFrameBuffer, &previousFrameBuffer)
RunSplit3D(e, g, w) ==
    LET clp2 == Split3D(e, w.frame, w.retained, g)
    IN  [w EXCEPT !.frame.clp2 = clp2,
                  !.writes.split3D = @ \cup DOMAIN clp2,
                  !.prevReads = @ \cup {Split3DIndex(e, x[1], x[2]) : x \in Window(e)}]

\* splitIQ(&currentFrameBuffer); tempYiqBuffer = currentFrameBuffer.yiqBuffer
RunSplitIQ(e, g, w) ==
    LET yiq == SplitIQ(e, w.frame, g)
    IN  [w EXCEPT !.frame.yiqBuffer = yiq,
                  !.temp = yiq,
                  !.writes.splitIQ = @ \cup DOMAIN yiq]

\* adjustY(tempYiqBuffer, firstFieldPhaseID, secondFieldPhaseID)
RunAdjustY(e, w) ==
    LET written == AdjustYWritten(e, w.temp, w.frame.firstFieldPhaseID,
                                  w.frame.secondFieldPhaseID)
    IN  [w EXCEPT !.temp = Overwrite(@, written),
                  !.writes.adjustY = @ \cup DOMAIN written]

\* if (configuration.colorlpf) filterIQ(currentFrameBuffer.yiqBuffer)
RunFilterIQ(e, w) ==
    IF e.c.colorlpf
    THEN LET written == FilterIQWritten(e, w.frame.yiqBuffer)
         IN  [w EXCEPT !.frame.yiqBuffer = Overwrite(@, written),
                       !.writes.filterIQ = @ \cup DOMAIN written]
    ELSE w

\* doYNR(tempYiqBuffer)
RunDoYNR(e, w) ==
    LET written == DoYNRWritten(e, w.temp)
    IN  [w EXCEPT !.ynrIn = w.temp,
                  !.temp = Overwrite(@, written),
                  !.writes.doYNR = @ \cup DOMAIN written]

\* doCNR(tempYiqBuffer)
RunDoCNR(e, w) ==
    LET written == DoCNRWritten(e, w.temp)
    IN  [w EXCEPT !.temp = Overwrite(@, written),
                  !.writes.doCNR = @ \cup DOMAIN written]

\* rgbOutputBuffer = yiqToRgbFrame(tempYiqBuffer, currentFrameBuffer.burstLevel)
RunYiqToRgbFrame(e, g, w) ==
    [w EXCEPT !.out = YiqToRgbFrame(e, w.temp, w.frame.burstLevel, g)]

\* if (configuration.showOpticalFlowMap) overlayOpticalFlowMap(...)
RunOverlay(e, g, w) ==
    IF e.c.showOpticalFlowMap
    THEN [w EXCEPT !.out = OverlayOpticalFlowMap(e, w.frame, w.out, g)]
    ELSE w

\* adjustY, filterIQ, doYNR and doCNR in the order process() runs them
PostProcess(e, w) == RunDoCNR(e, RunDoYNR(e, RunFilterIQ(e, RunAdjustY(e, w))))

\* A process() that never retains the frame
M_Retained(currentFrameBuffer) == EmptyFrameBuffer

\* previousFrameBuffer = currentFrameBuffer: of the retained frame only the
\* raw samples are ever read
Retained(currentFrameBuffer) == [rawbuffer |-> currentFrameBuffer.rawbuffer]

\* The last statement of the 3D branch
Retain(w) == [w EXCEPT !.retained = Retained(w.frame)]

\* A process() that always takes the 3D branch
M_ProcessUse3D(c) == TRUE

\* Which branch process() takes
ProcessUse3D(c) == c.use3D

\* The 2D branch
Process2D(e, g, w) ==
    RunYiqToRgbFrame(e, g,
        PostProcess(e, RunSplitIQ(e, g, RunSplit2D(e, RunSplit1D(e, g, w)))))

\* The first half of the 3D branch, up to the motion map
Process3DFlow(e, kpat, g, w) ==
    RunOpticalFlow(e, kpat,
        PostProcess(e, RunSplitIQ(e, g, RunSplit2D(e, RunSplit1D(e, g, w)))))

\* The 3D branch
Process3D(e, kpat, g, w) ==
    Retain(RunOverlay(e, g, RunYiqToRgbFrame(e, g,
        PostProcess(e, RunSplitIQ(e, g, RunSplit3D(e, g, Process3DFlow(e, kpat, g, w)))))))

\* One process() call of an engine e whose retained frame is `previous`
ProcessRun(e, previous, firstField, secondField, burstMedianIre, firstFieldPhaseID, secondFieldPhaseID, kpat, g) ==
    IF ~ProcessUse3D(e.c)
    THEN Process2D(e, g, NewWork(NewFrameBuffer(e, firstField, secondField, burstMedianIre,
                                                firstFieldPhaseID, secondFieldPhaseID), previous))
    ELSE Process3D(e, kpat, g,
                   NewWork(NewFrameBuffer(e, firstField, secondField, burstMedianIre,
                                          firstFieldPhaseID, secondFieldPhaseID), previous))

(***************************************************************************)
(* The engine                                                              *)
(***************************************************************************)
NoCall == [done |-> FALSE]

NoProbe == [kind |-> "none"]

Init ==
    /\ configuration = DefaultConfiguration
    /\ irescale = IreScaleOf(DefaultConfiguration)
    /\ frameHeight = FrameHeightOf(DefaultConfiguration)
    /\ previousFrameBuffer = EmptyFrameBuffer
    /\ diag = {}
    /\ op = "construct"
    /\ call = NoCall
    /\ probe = NoProbe

\* Comb::setConfiguration(configurationParam)
SetConfiguration(configurationParam) ==
    /\ diag' = Diagnostics(configuration, configurationParam)
    /\ configuration' = configurationParam
    /\ irescale' = IreScaleOf(configurationParam)
    /\ frameHeight' = FrameHeightOf(configurationParam)
    /\ op' = "setConfiguration"
    /\ call' = NoCall
    /\ UNCHANGED <<previousFrameBuffer, probe>>

\* Comb::process(firstFieldInputBuffer, secondFieldInputBuffer, burstMedianIre,
\*               firstFieldPhaseID, secondFieldPhaseID)
Process(fields, burstMedianIre, phases, kpat, g) ==
        /\ call' = [ done       |-> TRUE,
                     e          |-> Engine(configuration, irescale, frameHeight),
                     fields     |-> fields,
                     burst      |-> burstMedianIre,
                     phases     |-> phases,
                     kpat       |-> kpat,
                     g          |-> g,
                     prevBefore |-> previousFrameBuffer,
                     r          |-> ProcessRun(Engine(configuration, irescale, frameHeight),
                                               previousFrameBuffer, fields[1], fields[2],
                                               burstMedianIre, phases[1], phases[2], kpat, g) ]
        /\ previousFrameBuffer' = call'.r.retained
        /\ op' = "process"
        /\ diag' = {}
        /\ UNCHANGED <<configuration, irescale, frameHeight, probe>>

Next ==
    \/ \E configurationParam \in Configurations : SetConfiguration(configurationParam)
    \/ \E fields \in FieldPairs, burstMedianIre \in BurstLevels, phases \in PhasePairs,
          kpat \in (IF configuration.use3D THEN KPatterns ELSE {"none"}),
          g \in (IF configuration.use3D THEN GarbagePatterns ELSE {"low"}) :
            Process(fields, burstMedianIre, phases, kpat, g)

Spec == Init /\ [][Next]_vars

(***************************************************************************)
(* Comb::split2D on its own: the weights of one element                    *)
(***************************************************************************)
\* The 1D chroma values the weights are computed from
ChromaValues == {R(-24000), Zero, R(300), R(24000)}

\* The configurations whose irescale the weights are computed with: the
\* constructor's, and one whose white level equals its black level
IreConfigurations ==
    {DefaultConfiguration, [DefaultConfiguration EXCEPT !.whiteIre = DefaultBlackIre]}

InitWeights == Init

\* The weights of one element whose neighbourhood holds the given values
Weigh(c, cur, prev, next) ==
    /\ probe' = [ kind |-> "weights",
                  ire  |-> IreScaleOf(c),
                  cur  |-> cur,
                  prev |-> prev,
                  next |-> next,
                  w    |-> Split2DWeights(IreScaleOf(c), cur, prev, next) ]
    /\ UNCHANGED <<configuration, irescale, frameHeight, previousFrameBuffer, diag, op, call>>

\* One element is weighed in a run
NextWeights ==
    /\ probe = NoProbe
    /\ \E c \in IreConfigurations,
          cur \in ChromaValues \X ChromaValues,
          prev \in ChromaValues \X ChromaValues,
          next \in ChromaValues \X ChromaValues :
            Weigh(c, cur, prev, next)

SpecWeights == InitWeights /\ [][NextWeights]_vars

(***************************************************************************)
(* The phase inversion loops of split1D, splitIQ and adjustY on their own  *)
(***************************************************************************)
\* The windows the loops are run on: those of Configurations, and the same
\* windows starting one line earlier
PhaseConfigurations ==
    Configurations
    \cup {[c EXCEPT !.firstVisibleFrameLine = @ - 1] : c \in Configurations}

InitPhase == Init

\* The inversion state the three passes compute for every visible line
Track(c, firstFieldPhaseID, secondFieldPhaseID) ==
    LET e == Engine(c, IreScaleOf(c), FrameHeightOf(c))
    IN  /\ probe' = [ kind    |-> "phase",
                      e       |-> e,
                      first   |-> firstFieldPhaseID,
                      second  |-> secondFieldPhaseID,
                      split1D |-> Split1DInvert(e, firstFieldPhaseID, secondFieldPhaseID),
                      splitIQ |-> SplitIQInvert(e, firstFieldPhaseID, secondFieldPhaseID),
                      adjustY |-> AdjustYInvert(e, firstFieldPhaseID, secondFieldPhaseID) ]
        /\ UNCHANGED <<configuration, irescale, frameHeight, previousFrameBuffer, diag, op, call>>

\* One frame is tracked in a run
NextPhase ==
    /\ probe = NoProbe
    /\ \E c \in PhaseConfigurations, firstFieldPhaseID \in PhaseIDs, secondFieldPhaseID \in PhaseIDs :
          Track(c, firstFieldPhaseID, secondFieldPhaseID)

SpecPhase == InitPhase /\ [][NextPhase]_vars

(***************************************************************************)
(* adjustY, doYNR and doCNR on their own, on a window wide enough for the   *)
(* noise reducers to read their own high-pass output                       *)
(***************************************************************************)
\* Columns of the wide window: more than NoiseLookahead
WideCols == 14

\* The constructor's configuration with the wide window
WideConfiguration ==
    [DefaultConfiguration EXCEPT !.activeVideoEnd = DefaultActiveVideoStart + WideCols]

\* The engine after setConfiguration(c)
Configured(c) == Engine(c, IreScaleOf(c), FrameHeightOf(c))

\* The field buffers the passes are run on
PassFields == {"dim", "dusk", "step"}

\* The pairs of phase IDs the passes are run with (consecutive fields)
PassPhases == {<<1, 2>>, <<2, 3>>, <<3, 4>>, <<4, 1>>}

\* The start of the 2D branch of process(), up to
\* tempYiqBuffer = currentFrameBuffer.yiqBuffer, on a fresh engine
Separated(e, firstField, secondField, phases, g) ==
    RunSplitIQ(e, g, RunSplit2D(e, RunSplit1D(e, g,
        NewWork(NewFrameBuffer(e, firstField, secondField, R(20), phases[1], phases[2]),
                EmptyFrameBuffer))))

InitPasses == Init

\* What adjustY makes of the plane yiqBuffer
AdjustYProbe(e, phases, yiqBuffer) ==
    [ kind   |-> "adjustY",
      e      |-> e,
      first  |-> phases[1],
      second |-> phases[2],
      in     |-> yiqBuffer,
      out    |-> AdjustY(e, yiqBuffer, phases[1], phases[2]) ]

\* adjustY(tempYiqBuffer, firstFieldPhaseID, secondFieldPhaseID) as process()
\* calls it
Adjust(firstField, secondField, phases) ==
    /\ probe' = AdjustYProbe(Configured(WideConfiguration), phases,
                    Separated(Configured(WideConfiguration), firstField, secondField,
                              phases, "low").temp)
    /\ UNCHANGED <<configuration, irescale, frameHeight, previousFrameBuffer, diag, op, call>>

\* What doYNR makes of the planes yiqBuffer and other
DoYNRProbe(e, yiqBuffer, other) ==
    [ kind     |-> "doYNR",
      e        |-> e,
      in       |-> yiqBuffer,
      out      |-> DoYNR(e, yiqBuffer),
      other    |-> other,
      otherOut |-> DoYNR(e, other) ]

\* doYNR(tempYiqBuffer) as process() calls it, for two frames that have the
\* first field in common
DenoiseY(firstField, secondField, otherField, phases) ==
    /\ probe' = DoYNRProbe(Configured(WideConfiguration),
                    RunAdjustY(Configured(WideConfiguration),
                        Separated(Configured(WideConfiguration), firstField, secondField,
                                  phases, "low")).temp,
                    RunAdjustY(Configured(WideConfiguration),
                        Separated(Configured(WideConfiguration), firstField, otherField,
                                  phases, "low")).temp)
    /\ UNCHANGED <<configuration, irescale, frameHeight, previousFrameBuffer, diag, op, call>>

\* What doCNR makes of the plane yiqBuffer
DoCNRProbe(e, yiqBuffer) ==
    [ kind |-> "doCNR",
      e    |-> e,
      in   |-> yiqBuffer,
      out  |-> DoCNR(e, yiqBuffer) ]

\* doCNR(tempYiqBuffer) as process() calls it
DenoiseC(firstField, secondField, phases) ==
    /\ probe' = DoCNRProbe(Configured(WideConfiguration),
                    RunDoYNR(Configured(WideConfiguration),
                        RunAdjustY(Configured(WideConfiguration),
                            Separated(Configured(WideConfiguration), firstField, secondField,
                                      phases, "low"))).temp)
    /\ UNCHANGED <<configuration, irescale, frameHeight, previousFrameBuffer, diag, op, call>>

\* One pass is run in a run
NextPasses ==
    /\ probe = NoProbe
    /\ \/ \E firstField \in PassFields, secondField \in PassFields, phases \in PassPhases :
              Adjust(firstField, secondField, phases)
       \/ \E firstField \in PassFields, secondField \in PassFields, otherField \in PassFields,
                phases \in PhasePairs :
              DenoiseY(firstField, secondField, otherField, phases)
       \/ \E firstField \in PassFields, secondField \in PassFields, phases \in PassPhases :
              DenoiseC(firstField, secondField, phases)

SpecPasses == InitPasses /\ [][NextPasses]_vars

(***************************************************************************)
(* overlayOpticalFlowMap on its own, on a window whose RGB pixels are not   *)
(* all black                                                               *)
(***************************************************************************)
\* Columns of the window the overlay is run on
OverlayCols == 4

\* The constructor's configuration with that window, the 3D branch and the
\* motion map overlay switched on
OverlayConfiguration ==
    [DefaultConfiguration EXCEPT !.activeVideoEnd = DefaultActiveVideoStart + OverlayCols,
                                 !.use3D = TRUE,
                                 !.showOpticalFlowMap = TRUE]

\* The 3D branch of process() on a fresh engine, up to
\* rgbOutputBuffer = yiqToRgbFrame(...)
Converted(e, firstField, secondField, phases, kpat, g) ==
    RunYiqToRgbFrame(e, g, PostProcess(e, RunSplitIQ(e, g, RunSplit3D(e, g,
        Process3DFlow(e, kpat, g,
            NewWork(NewFrameBuffer(e, firstField, secondField, R(20), phases[1], phases[2]),
                    EmptyFrameBuffer))))))

InitOverlay == Init

\* What overlayOpticalFlowMap makes of the locals w of process()
OverlayProbe(e, kpat, g, w) ==
    [ kind        |-> "overlay",
      e           |-> e,
      kpat        |-> kpat,
      g           |-> g,
      frame       |-> w.frame,
      before      |-> w.out,
      after       |-> OverlayOpticalFlowMap(e, w.frame, w.out, g),
      frameAfter  |-> RunOverlay(e, g, w).frame,
      retained    |-> Retain(RunOverlay(e, g, w)).retained ]

\* overlayOpticalFlowMap(currentFrameBuffer, rgbOutputBuffer) as process()
\* calls it
Overlay(firstField, secondField, phases, kpat, g) ==
    /\ probe' = OverlayProbe(Configured(OverlayConfiguration), kpat, g,
                    Converted(Configured(OverlayConfiguration), firstField, secondField,
                              phases, kpat, g))
    /\ UNCHANGED <<configuration, irescale, frameHeight, previousFrameBuffer, diag, op, call>>

\* One frame is overlaid in a run
NextOverlay ==
    /\ probe = NoProbe
    /\ \E firstField \in PassFields, secondField \in PassFields, phases \in PassPhases,
          kpat \in KPatterns, g \in GarbagePatterns :
            Overlay(firstField, secondField, phases, kpat, g)

SpecOverlay == InitOverlay /\ [][NextOverlay]_vars

(***************************************************************************)
(* Properties                                                              *)
(***************************************************************************)
\* Element x lies in rows [firstVisibleFrameLine, frameHeight) and columns
\* [activeVideoStart, activeVideoEnd) of engine e
InWindow(e, x) ==
    /\ x[1] >= e.c.firstVisibleFrameLine
    /\ x[1] < e.frameHeight
    /\ x[2] >= e.c.activeVideoStart
    /\ x[2] < e.c.activeVideoEnd

\* The raw interlaced sample of the current frame at element x
CurrentSample(x) ==
    RawRead(call.r.frame.rawbuffer, Split3DIndex(call.e, x[1], x[2]), call.g)

\* C1: the frame process() returns is fieldWidth * frameHeight * 3 * 2 bytes
\* long, with frameHeight = 2 * fieldHeight - 1 of the installed
\* configuration, in 2D and in 3D mode.
C1_OutputSize ==
    op = "process" =>
        call.r.out.size
            = ((configuration.fieldWidth * ((2 * configuration.fieldHeight) - 1)) * 3) * 2

C1_Witness ==
    /\ op = "process"
    /\ configuration.fieldHeight = DefaultFieldHeight + 1
    /\ call.r.out.size = ((DefaultFieldWidth * ((2 * DefaultFieldHeight) + 1)) * 3) * 2

\* C2: with use3D false the frame process() returns is the one an engine
\* with no history returns for the same call, the call reads nothing of the
\* retained previous frame and leaves it as it was.
C2_HistoryIndependent ==
    (op = "process" /\ ~call.e.c.use3D) =>
        /\ call.r.out = ProcessRun(call.e, EmptyFrameBuffer, call.fields[1], call.fields[2],
                                   call.burst, call.phases[1], call.phases[2],
                                   call.kpat, call.g).out
        /\ call.r.prevReads = {}
        /\ previousFrameBuffer = call.prevBefore

C2_Witness ==
    /\ op = "process"
    /\ ~call.e.c.use3D
    /\ call.prevBefore # EmptyFrameBuffer
    /\ call.prevBefore.rawbuffer.first # call.fields[1]

\* C3: on the first 3D call of an engine (the retained frame is still empty)
\* the 3D estimate of every visible line and active column is half the raw
\* sample of the current frame there.
C3_FirstCallEstimate ==
    (op = "process" /\ call.e.c.use3D /\ call.prevBefore = EmptyFrameBuffer) =>
        \A x \in Window(call.e) :
            \/ call.r.frame.clp2[x] = Frac(CurrentSample(x), 2)
            \/ call.r.frame.clp2[x] = R(TruncDiv(CurrentSample(x), 2))

\* C4: a setConfiguration() call whose parameter violates a limit logs the
\* diagnostic of that limit in that call, and installs the parameter.
C4_DiagnosticInSameCall ==
    op = "setConfiguration" =>
        /\ configuration.fieldWidth > MaxFieldWidth => "width" \in diag
        /\ ((configuration.fieldHeight * 2) - 1) > MaxFrameHeight => "height" \in diag
        /\ configuration.activeVideoStart < MinActiveVideoStart => "start" \in diag
        /\ frameHeight = (configuration.fieldHeight * 2) - 1

\* a lies in [0, 1]
InUnit(a) == RLe(Zero, a) /\ RLe(a, One)

\* C5: for finite 1D chroma values the weights kp and kn of split2D lie in
\* [0, 1] where they multiply the line differences.
C5_WeightsInUnit ==
    probe.kind = "weights" => InUnit(probe.w.kp) /\ InUnit(probe.w.kn)

\* C6: with colorlpf true the I and Q values handed to doYNR, doCNR and
\* yiqToRgbFrame are those filterIQ produced.
C6_LowPassReachesRgb ==
    (op = "process" /\ call.e.c.colorlpf) =>
        \A x \in Window(call.e) :
            /\ YiqRead(call.r.ynrIn, x[1], x[2]).i
                 = YiqRead(call.r.frame.yiqBuffer, x[1], x[2]).i
            /\ YiqRead(call.r.ynrIn, x[1], x[2]).q
                 = YiqRead(call.r.frame.yiqBuffer, x[1], x[2]).q

\* C7 as stated: every element a pass of process() writes lies in the window.
C7_Original ==
    op = "process" =>
        \A x \in call.r.writes.split1D \cup call.r.writes.split2D \cup call.r.writes.split3D
                 \cup call.r.writes.splitIQ \cup call.r.writes.filterIQ
                 \cup call.r.writes.adjustY \cup call.r.writes.doYNR
                 \cup call.r.writes.doCNR :
            InWindow(call.e, x)

\* C7: every element split1D, split2D, split3D, splitIQ, adjustY, doYNR and
\* doCNR write lies in rows [firstVisibleFrameLine, frameHeight) and columns
\* [activeVideoStart, activeVideoEnd); filterIQ writes in the same rows, two
\* columns to the left: [activeVideoStart - 2, activeVideoEnd - 2).
C7_WritesInWindow ==
    op = "process" =>
        /\ \A x \in call.r.writes.split1D \cup call.r.writes.split2D \cup call.r.writes.split3D
                    \cup call.r.writes.splitIQ \cup call.r.writes.adjustY
                    \cup call.r.writes.doYNR \cup call.r.writes.doCNR :
               InWindow(call.e, x)
        /\ \A x \in call.r.writes.filterIQ :
               InWindow(call.e, <<x[1], x[2] + FilterIQOffset>>)

C7_Witness ==
    /\ op = "process"
    /\ call.e.c.use3D
    /\ call.r.writes.split2D # {}
    /\ \E x \in call.r.writes.filterIQ : x[2] < call.e.c.activeVideoStart

\* One step of the engine as C8 describes it: a 3D call computes its estimate
\* from the frame retained before the call and retains the raw samples of
\* its own frame; every other step leaves the retained frame alone.
C8_Step ==
    IF op' = "process" /\ call'.e.c.use3D
    THEN /\ previousFrameBuffer'.rawbuffer
              = Interlace(configuration, frameHeight, call'.fields[1], call'.fields[2])
         /\ previousFrameBuffer'.rawbuffer = call'.r.frame.rawbuffer
         /\ \A x \in Window(call'.e) :
              call'.r.frame.clp2[x]
                = R(TruncDiv(RawRead(previousFrameBuffer.rawbuffer,
                                     Split3DIndex(call'.e, x[1], x[2]), call'.g)
                             - RawRead(call'.r.frame.rawbuffer,
                                       Split3DIndex(call'.e, x[1], x[2]), call'.g), 2))
    ELSE previousFrameBuffer' = previousFrameBuffer

\* C8: the retained previous frame is empty until the first 3D call and from
\* then on holds the raw samples of the most recent 3D call; a 3D call
\* computes its 3D estimate from the frame retained before it and replaces
\* the retained frame with its own.
C8_RetainedFrame == (previousFrameBuffer = EmptyFrameBuffer) /\ [][C8_Step]_vars

C8_Witness ==
    /\ op = "process"
    /\ call.e.c.use3D
    /\ call.prevBefore # EmptyFrameBuffer
    /\ call.prevBefore # previousFrameBuffer

\* C9: every element of clpbuffer[0] split2D reads was written by split1D in
\* the same call.
C9_ReadsWritten ==
    op = "process" => Split2DReads(call.e) \subseteq call.r.writes.split1D

\* The inversion state of line l: the flag of the line's parity, which starts
\* from the phase ID of that parity's field alone and has been toggled once
\* for every visible line of that parity up to l
ExpectedInvert(e, firstFieldPhaseID, secondFieldPhaseID, l) ==
    LET start  == IF l % 2 = 0
                  THEN firstFieldPhaseID \in {2, 3}
                  ELSE secondFieldPhaseID \in {1, 4}
        visits == Cardinality({m \in e.c.firstVisibleFrameLine .. l : m % 2 = l % 2})
    IN  IF visits % 2 = 1 THEN ~start ELSE start

\* C10: split1D, splitIQ and adjustY compute the same inversion state for
\* every visible line, and it is the flag of the line's own parity toggled
\* once per visited line of that parity.
C10_SamePhase ==
    probe.kind = "phase" =>
        /\ DOMAIN probe.split1D = Lines(probe.e)
        /\ probe.splitIQ = probe.split1D
        /\ probe.adjustY = probe.split1D
        /\ \A l \in Lines(probe.e) :
              probe.split1D[l] = ExpectedInvert(probe.e, probe.first, probe.second, l)

C10_Witness ==
    /\ probe.kind = "phase"
    /\ probe.first = 2
    /\ probe.second = 2
    /\ probe.e.c.firstVisibleFrameLine % 2 = 0
    /\ \E l \in Lines(probe.e) :
          (l + 1) \in Lines(probe.e) /\ probe.adjustY[l] /\ ~probe.adjustY[l + 1]

\* C11: the value split1D stores in clpbuffer[0] for every visible line and
\* active column is the output of the line's I or Q low-pass filter, with the
\* inverse sign correction applied (tc1f), not the unfiltered sample (tc1).
C11_StoresFiltered ==
    op = "process" =>
        LET v == Split1DValues(call.e, call.r.frame, call.g)
        IN  \A x \in Window(call.e) : call.r.frame.clp0[x] = v[x[1]][x[2]].tc1f

\* The correction adjustY is to add to the Y of column h: the I or Q value
\* of the element yiq selected by the phase of h, negated on a line whose
\* phase is inverted
ExpectedCorrection(yiq, h, invertphase) ==
    LET comp == CASE h % 4 = 0 -> yiq.q
                  [] h % 4 = 1 -> RNeg(yiq.i)
                  [] h % 4 = 2 -> RNeg(yiq.q)
                  [] OTHER     -> yiq.i
    IN  IF invertphase THEN RNeg(comp) ELSE comp

\* C12: adjustY changes only the Y of every visible, active pixel: the new Y
\* is the pixel's own Y plus the phase-selected, sign-corrected I or Q of the
\* pixel two columns to the right, and the pixel's I and Q stay as they were.
C12_OnlyYChanges ==
    probe.kind = "adjustY" =>
        \A x \in Window(probe.e) :
            /\ YiqRead(probe.out, x[1], x[2]).i = YiqRead(probe.in, x[1], x[2]).i
            /\ YiqRead(probe.out, x[1], x[2]).q = YiqRead(probe.in, x[1], x[2]).q
            /\ YiqRead(probe.out, x[1], x[2]).y
                 = RAdd(YiqRead(probe.in, x[1], x[2]).y,
                        ExpectedCorrection(YiqRead(probe.in, x[1], x[2] + 2), x[2],
                            ExpectedInvert(probe.e, probe.first, probe.second, x[1])))

\* value a capped at the largest 16-bit value
Cap16(a) == IF a > MaxRgb THEN MaxRgb ELSE a

\* The motion confidence of element x scaled to the 16-bit range
Confidence16(x) ==
    Trunc(RMul(KRead(probe.frame.kValues, (x[1] * KStride) + x[2], probe.g), R(MaxRgb)))

\* The indices of the RGB frame that hold the pixels yiqToRgbFrame wrote
ConvertedIndices(e) ==
    UNION {{RgbIndex(e, x[1], x[2]), RgbIndex(e, x[1], x[2]) + 1, RgbIndex(e, x[1], x[2]) + 2} :
           x \in Window(e)}

\* C13: overlayOpticalFlowMap adds the motion confidence, scaled to 16 bits
\* and capped at 65535, to the red and the blue value of every pixel
\* yiqToRgbFrame wrote, leaves the green value of these pixels, every other
\* element of the RGB frame and the whole frame buffer (the frame later
\* retained included) as they were.
C13_OnlyRedAndBlue ==
    probe.kind = "overlay" =>
        /\ \A x \in Window(probe.e) :
              /\ RgbRead(probe.after.px, RgbIndex(probe.e, x[1], x[2]))
                   = Cap16(RgbRead(probe.before.px, RgbIndex(probe.e, x[1], x[2]))
                           + Confidence16(x))
              /\ RgbRead(probe.after.px, RgbIndex(probe.e, x[1], x[2]) + 1)
                   = RgbRead(probe.before.px, RgbIndex(probe.e, x[1], x[2]) + 1)
              /\ RgbRead(probe.after.px, RgbIndex(probe.e, x[1], x[2]) + 2)
                   = Cap16(RgbRead(probe.before.px, RgbIndex(probe.e, x[1], x[2]) + 2)
                           + Confidence16(x))
        /\ \A idx \in (DOMAIN probe.after.px \cup DOMAIN probe.before.px)
                        \ ConvertedIndices(probe.e) :
              RgbRead(probe.after.px, idx) = RgbRead(probe.before.px, idx)
        /\ probe.after.size = probe.before.size
        /\ probe.frameAfter = probe.frame
        /\ probe.retained = Retained(probe.frame)

\* Line l of plane a equals line l of plane b in every column the noise
\* reducers read or write
SameLine(e, a, b, l) ==
    \A h \in e.c.activeVideoStart .. e.c.activeVideoEnd : YiqRead(a, l, h) = YiqRead(b, l, h)

\* C14: what doYNR writes on a line depends on that line's input alone: two
\* planes that agree on a line have the same denoised line, whatever their
\* other lines hold.
C14_LinesIndependent ==
    probe.kind = "doYNR" =>
        \A l \in Lines(probe.e) :
            SameLine(probe.e, probe.in, probe.other, l)
                => SameLine(probe.e, probe.out, probe.otherOut, l)

\* Every value of the plane is finite
AllFinite(yiq) ==
    \A x \in DOMAIN yiq : IsFinite(yiq[x].y) /\ IsFinite(yiq[x].i) /\ IsFinite(yiq[x].q)

\* C15: doCNR leaves every Y, I and Q value of a finite plane as it was.
C15_DoCNRNoOp ==
    (probe.kind = "doCNR" /\ AllFinite(probe.in)) =>
        /\ DOMAIN probe.out = DOMAIN probe.in
        /\ \A x \in DOMAIN probe.in : probe.out[x] = probe.in[x]

\* doCNR ran on a finite plane whose first visible line has a chroma value
\* with a non-zero high-pass residual, and left that value as it was
C15_Witness ==
    /\ probe.kind = "doCNR"
    /\ AllFinite(probe.in)
    /\ \E h \in Cols(probe.e) :
          /\ HpRead(DoCNRFeed(probe.e, probe.in, probe.e.c.firstVisibleFrameLine,
                              probe.e.c.activeVideoEnd, FilterNew(f_nrc), FilterNew(f_nrc),
                              [c \in {} |-> ZeroYiq]).hplinef,
                    h + NoiseLookahead).i # Zero
          /\ YiqRead(probe.in, probe.e.c.firstVisibleFrameLine, h).i # Zero
          /\ YiqRead(probe.out, probe.e.c.firstVisibleFrameLine, h)
               = YiqRead(probe.in, probe.e.c.firstVisibleFrameLine, h)

====
